---- MODULE Spec2Model ----
(***************************************************************************)
(* The inventory service of src/server.js: an in-memory collection of      *)
(* items, an id counter and the photo files of the cache directory,        *)
(* driven by the HTTP handlers of the express application.                 *)
(*                                                                         *)
(* Strings are sequences of one-character strings, so that trim, parseInt, *)
(* startsWith and the template literals are computed and not postulated.   *)
(* An optional request field is a record [some, val]: some = FALSE is the  *)
(* JavaScript value undefined.                                             *)
(***************************************************************************)
EXTENDS Bags, Integers, Sequences, FiniteSets, TLC

\* ------------------------------------------------------------------ bounds
\* Registrations are explored while nextId <= MaxId.
MaxId == 2
\* Uploads are explored while fewer than MaxFiles files have been generated.
MaxFiles == 2
MaxInflight == 2

\* ------------------------------------------------------------- JS values
None == [some |-> FALSE, val |-> <<>>]
Some(v) == [some |-> TRUE, val |-> v]

\* item.photo === null. File names are the positive integers 1, 2, ...
null == 0
\* item.photo_url === null: no template-literal URL is this sequence.
nullUrl == <<"null">>

WhiteSpace == {" ", "\t", "\n"}
DigitChars == <<"0", "1", "2", "3", "4", "5", "6", "7", "8", "9">>
Digits == {DigitChars[i] : i \in 1..10}
DigitVal(c) == (CHOOSE i \in 1..10 : DigitChars[i] = c) - 1

\* String.prototype.trim
RECURSIVE TrimStart(_)
TrimStart(s) ==
  IF s # <<>> /\ Head(s) \in WhiteSpace THEN TrimStart(Tail(s)) ELSE s

RECURSIVE TrimEnd(_)
TrimEnd(s) ==
  IF s # <<>> /\ s[Len(s)] \in WhiteSpace
  THEN TrimEnd(SubSeq(s, 1, Len(s) - 1)) ELSE s

trim(s) == TrimEnd(TrimStart(s))

\* String.prototype.startsWith
startsWith(s, prefix) ==
  /\ Len(s) >= Len(prefix)
  /\ SubSeq(s, 1, Len(prefix)) = prefix

\* String.prototype.endsWith
endsWith(s, suffix) ==
  /\ Len(s) >= Len(suffix)
  /\ SubSeq(s, Len(s) - Len(suffix) + 1, Len(s)) = suffix

\* `${n}` for a non-negative integer n: its decimal digits.
RECURSIVE NumToString(_)
NumToString(n) ==
  IF n < 10 THEN <<DigitChars[n + 1]>>
  ELSE NumToString(n \div 10) \o <<DigitChars[(n % 10) + 1]>>

\* The longest prefix of s made of decimal digits.
RECURSIVE DigitPrefix(_)
DigitPrefix(s) ==
  IF s # <<>> /\ Head(s) \in Digits
  THEN <<Head(s)>> \o DigitPrefix(Tail(s)) ELSE <<>>

RECURSIVE DigitsValue(_)
DigitsValue(ds) ==
  IF ds = <<>> THEN 0
  ELSE 10 * DigitsValue(SubSeq(ds, 1, Len(ds) - 1)) + DigitVal(ds[Len(ds)])

\* parseInt(id), radix 10: leading white space is skipped, an optional sign
\* is read, then the longest run of digits; anything after it is ignored.
\* The result is a set: {} is NaN (NaN === x is false for every x), {n}
\* is the number n. An absent value (undefined) parses to NaN.
parseInt(id) ==
  IF ~id.some THEN {}
  ELSE LET s    == TrimStart(id.val)
           neg  == s # <<>> /\ Head(s) = "-"
           body == IF s # <<>> /\ Head(s) \in {"-", "+"} THEN Tail(s) ELSE s
           ds   == DigitPrefix(body)
       IN  IF ds = <<>> THEN {}
           ELSE {IF neg THEN 0 - DigitsValue(ds) ELSE DigitsValue(ds)}

\* ------------------------------------------------------------------ state
VARIABLES
  inventory,   \* const inventory = []: the items, in insertion order
  nextId,      \* let nextId = 1
  cache,       \* the names of the files in the cache directory
  nextFile,    \* the number of file names multer has generated, plus one
  pc,          \* "idle"; "swap": replace-photo between its unlink and its
               \* assignments; "sent": a handler has just answered
  req,         \* the request being served, NoRequest when idle
  resp,        \* the response to req, NoResp until it is sent
  issued,      \* the ids returned by 201 responses, in call order
  pending,     \* the bag of requests multer has stored the file of and
               \* whose handler has not run yet
  unlinked     \* for each file name, the number of fs.unlinkSync calls on it

vars ==
  <<inventory, nextId, cache, nextFile, pc, req, resp, issued, pending,
    unlinked>>


\* ------------------------------------------------------- string literals
ImagePrefix == <<"i", "m", "a", "g", "e", "/">>
InventoryPath == <<"/", "i", "n", "v", "e", "n", "t", "o", "r", "y", "/">>
PhotoSuffix == <<"/", "p", "h", "o", "t", "o">>
PhotoNote == <<"\n", "P", "h", "o", "t", "o", ":", " ">>
On == <<"o", "n">>
\* a path is written as its stem followed by its extension, if it has one
HtmlExt == <<".html">>

\* `${x}` for a photo_url: null prints as the four letters of "null".
UrlToString(u) == IF u = nullUrl THEN <<"n", "u", "l", "l">> ELSE u

\* ---------------------------------------------------------- request data
\* inventory_name of POST /register
NameVals ==
  {None, Some(<<>>), Some(<<" ">>), Some(<<"a">>), Some(<<" ", "a", " ">>)}
\* inventory_name of PUT /inventory/:id
UpdateNameVals == {None, Some(<<>>), Some(<<"a">>)}
\* description of POST /register and PUT /inventory/:id
DescVals == {None, Some(<<>>), Some(<<"d">>)}
\* the photo part of a multipart request: its declared media type
PhotoVals ==
  {None, Some(ImagePrefix \o <<"x">>), Some(<<"t", "e", "x", "t", "/", "x">>)}
\* :id and body.id: the decimal ids, an id with a trailing letter, a word
IdVals ==
  {Some(NumToString(i)) : i \in 1..MaxId} \cup {Some(<<"1", "a">>), Some(<<"a">>)}
\* has_photo of POST /search
HasPhotoVals == {None, Some(On), Some(<<"o", "f", "f">>)}

\* -------------------------------------------------------------- responses
NoItem ==
  [id |-> 0, inventory_name |-> <<>>, description |-> <<>>,
   photo |-> null, photo_url |-> nullUrl]

\* No response yet: the handler is still running.
NoResp ==
  [status |-> 0, error |-> "", item |-> NoItem, file |-> null, list |-> <<>>,
   asset |-> <<>>]
\* res.status(code).json({ error })
Error(code, msg) == [NoResp EXCEPT !.status = code, !.error = msg]
\* res.status(code).json(item)
Json(code, item) == [NoResp EXCEPT !.status = code, !.item = item]
JsonListReversed(list) ==
  [NoResp EXCEPT !.status = 200,
                 !.list = [i \in 1..Len(list) |-> list[Len(list) + 1 - i]]]

\* res.json(inventory)
JsonList(list) == [NoResp EXCEPT !.status = 200, !.list = list]
\* res.sendFile(path)
SendFile(f) == [NoResp EXCEPT !.status = 200, !.file = f]
\* a file of the server's directory sent as it is
SendAsset(path) == [NoResp EXCEPT !.status = 200, !.asset = path]
\* res.json({ message: 'Item deleted successfully' })
Deleted == [NoResp EXCEPT !.status = 200]

\* A request: its method and path (op), its fields, and two values its
\* handler holds: req.file.filename (file) and the photo of the item it
\* found, as read before the handler changed anything (old).
Request(op, id, name, description, photo, has_photo, file, old) ==
  [op |-> op, id |-> id, inventory_name |-> name, description |-> description,
   photo |-> photo, has_photo |-> has_photo, file |-> file, old |-> old,
   method |-> "", path |-> <<>>]

\* ------------------------------------------------------------------ multer
\* fileFilter: the declared media type starts with "image/"
fileFilter(mimetype) == startsWith(mimetype, ImagePrefix)

\* req.file.filename after upload.single('photo'), null when req.file is
\* undefined: a part that fileFilter refuses is skipped without an error.
\* The generated name `${Date.now()}-${random}${ext}` is taken to be new:
\* the n-th stored file is named n.
reqFile(photo, n) ==
  IF photo.some /\ fileFilter(photo.val) THEN n ELSE null

DiskWriteLost(dir, f) == dir

\* diskStorage: the accepted part is written to the cache directory.
diskStorage(dir, f) == dir \cup {f}

\* The cache directory once upload.single('photo') has run.
upload(dir, file) == IF file # null THEN diskStorage(dir, file) ELSE dir

\* ----------------------------------------------------------------- lookup
\* inventory.findIndex(i => i.id === parseInt(id)); 0 stands for -1 and
\* index k for the JavaScript index k - 1.
findItemIndex(inv, id) ==
  LET hits == {k \in 1..Len(inv) : inv[k].id \in parseInt(id)}
  IN  IF hits = {} THEN 0 ELSE CHOOSE k \in hits : \A j \in hits : k <= j

\* inventory.find(i => i.id === parseInt(id)); None stands for undefined.
findItem(inv, id) ==
  LET k == findItemIndex(inv, id)
  IN  IF k = 0 THEN None ELSE Some(inv[k])

\* ------------------------------------------------------- handler helpers
Truthy(field) == field.some /\ field.val # <<>>

NameMissingNoTrim(name) == ~Truthy(name)

\* !req.body.inventory_name || !req.body.inventory_name.trim()
NameMissing(name) == ~Truthy(name) \/ trim(name.val) = <<>>

\* `/inventory/${id}/photo`
PhotoUrl(idText) == InventoryPath \o idText \o PhotoSuffix

NewItemUntrimmed(nid, name, description, file) ==
  [id |-> nid,
   inventory_name |-> name.val,
   description |-> IF Truthy(description) THEN description.val ELSE <<>>,
   photo |-> file,
   photo_url |-> IF file # null THEN PhotoUrl(NumToString(nid)) ELSE nullUrl]

NewItemAlwaysUrl(nid, name, description, file) ==
  [id |-> nid,
   inventory_name |-> trim(name.val),
   description |-> IF Truthy(description) THEN description.val ELSE <<>>,
   photo |-> file,
   photo_url |-> PhotoUrl(NumToString(nid))]

\* The item literal of the register handler.
NewItem(nid, name, description, file) ==
  [id |-> nid,
   inventory_name |-> trim(name.val),
   description |-> IF Truthy(description) THEN description.val ELSE <<>>,
   photo |-> file,
   photo_url |-> IF file # null THEN PhotoUrl(NumToString(nid)) ELSE nullUrl]

NextIdStuck(n) == n

\* nextId++
IncNextId(n) == n + 1

UnlinkNothing(dir, photo) == dir

UnlinkAll(dir, photo) == IF photo # null /\ photo \in dir THEN {} ELSE dir

\* if (item.photo) { if (fs.existsSync(p)) fs.unlinkSync(p); }
Unlink(dir, photo) ==
  IF photo # null /\ photo \in dir THEN dir \ {photo} ELSE dir

\* The count of fs.unlinkSync calls after the same statement.
unlinkSync(log, dir, photo) ==
  IF photo # null /\ photo \in dir THEN [log EXCEPT ![photo] = @ + 1] ELSE log

SpliceNothing(inv, k) == inv

\* inventory.splice(index, 1)
Splice(inv, k) == SubSeq(inv, 1, k - 1) \o SubSeq(inv, k + 1, Len(inv))

SwapPhotoKeepsOld(item, file, id) ==
  [item EXCEPT !.photo_url = PhotoUrl(id.val)]

\* item.photo = req.file.filename; item.photo_url = `/inventory/${id}/photo`
SwapPhoto(item, file, id) ==
  [item EXCEPT !.photo = file, !.photo_url = PhotoUrl(id.val)]

UpdateItemIfTruthy(item, name, description) ==
  [item EXCEPT
     !.inventory_name = IF Truthy(name) THEN trim(name.val) ELSE @,
     !.description = IF Truthy(description) THEN description.val ELSE @]

\* The partial update of PUT /inventory/:id.
UpdateItem(item, name, description) ==
  [item EXCEPT
     !.inventory_name = IF name.some THEN name.val ELSE @,
     !.description = IF description.some THEN description.val ELSE @]

SearchResultAlways(item, has_photo) ==
  IF has_photo = Some(On)
  THEN [item EXCEPT
          !.description = @ \o PhotoNote \o UrlToString(item.photo_url)]
  ELSE item

\* const result = { ...item }; the note is appended to the copy.
SearchResult(item, has_photo) ==
  IF has_photo = Some(On) /\ item.photo # null
  THEN [item EXCEPT
          !.description = @ \o PhotoNote \o UrlToString(item.photo_url)]
  ELSE item

SearchStoreAliased(inv, k, has_photo) ==
  [inv EXCEPT ![k] = SearchResult(inv[k], has_photo)]

\* The collection once the search handler has run: result is a copy of the
\* item, so writing result.description leaves the stored item alone.
SearchStore(inv, k, has_photo) == inv

FetchPhotoNamesItem(inv, dir, id) ==
  LET item == findItem(inv, id)
  IN  IF ~item.some THEN Error(404, "Item not found")
      ELSE IF item.val.photo = null THEN Error(404, "Photo not found")
      ELSE IF item.val.photo \in dir
           THEN SendFile(item.val.photo)
           ELSE Error(404, "Photo file not found")

\* GET /inventory/:id/photo on a given store.
FetchPhoto(inv, dir, id) ==
  LET item == findItem(inv, id)
  IN  IF ~item.some \/ item.val.photo = null
      THEN Error(404, "Photo not found")
      ELSE IF item.val.photo \in dir
           THEN SendFile(item.val.photo)
           ELSE Error(404, "Photo file not found")


\* ------------------------------------------------------------------- Init
NoRequest == Request("none", None, None, None, None, None, null, null)

Init ==
  /\ inventory = <<>>
  /\ nextId = 1
  /\ cache = {}
  /\ nextFile = 1
  /\ pc = "idle"
  /\ req = NoRequest
  /\ resp = NoResp
  /\ issued = <<>>
  /\ pending = EmptyBag
  /\ unlinked = [f \in 1..MaxFiles |-> 0]

\* upload.single('photo') of a multipart request: the file multer stored
\* (null for none), with the generator of file names advanced.
Multer(photo, file) ==
  /\ file = reqFile(photo, nextFile)
  /\ file # null => nextFile <= MaxFiles
  /\ nextFile' = IF file # null THEN nextFile + 1 ELSE nextFile

\* ---------------------------------------------------------------- actions
\* Requests are served one at a time: a handler starts when the server is
\* idle (pc = "idle") and ends with the response sent (pc = "sent").

\* POST /register
\* The handler of POST /register, for a request whose upload stored file.
PostRegister(name, description, photo, file) ==
  /\ req' = Request("register", None, name, description, photo, None, file, null)
  /\ IF NameMissing(name)
     THEN /\ resp' = Error(400, "Inventory name is required")
          /\ UNCHANGED <<inventory, nextId, issued>>
     ELSE LET item == NewItem(nextId, name, description, file)
          IN  /\ inventory' = Append(inventory, item)
              /\ nextId' = IncNextId(nextId)
              /\ resp' = Json(201, item)
              /\ issued' = Append(issued, item.id)
  /\ pc' = "sent"
  /\ UNCHANGED unlinked

Register(name, description, photo) ==
  /\ pc = "idle"
  /\ nextId <= MaxId
  /\ \E file \in 0..MaxFiles :
       /\ Multer(photo, file)
       /\ cache' = upload(cache, file)
       /\ PostRegister(name, description, photo, file)
  /\ UNCHANGED pending

\* GET /inventory
GetInventory ==
  /\ pc = "idle"
  /\ req' = Request("list", None, None, None, None, None, null, null)
  /\ resp' = JsonList(inventory)
  /\ pc' = "sent"
  /\ UNCHANGED <<inventory, nextId, cache, nextFile, issued, pending, unlinked>>

\* GET /inventory/:id
GetItem(id) ==
  /\ pc = "idle"
  /\ req' = Request("get", id, None, None, None, None, null, null)
  /\ LET item == findItem(inventory, id)
     IN  resp' = IF item.some THEN Json(200, item.val)
                 ELSE Error(404, "Item not found")
  /\ pc' = "sent"
  /\ UNCHANGED <<inventory, nextId, cache, nextFile, issued, pending, unlinked>>

\* PUT /inventory/:id
Update(id, name, description) ==
  /\ pc = "idle"
  /\ req' = Request("update", id, name, description, None, None, null, null)
  /\ LET k == findItemIndex(inventory, id)
     IN  IF k = 0
         THEN /\ resp' = Error(404, "Item not found")
              /\ UNCHANGED inventory
         ELSE LET item == UpdateItem(inventory[k], name, description)
              IN  /\ inventory' = [inventory EXCEPT ![k] = item]
                  /\ resp' = Json(200, item)
  /\ pc' = "sent"
  /\ UNCHANGED <<nextId, cache, nextFile, issued, pending, unlinked>>

\* GET /inventory/:id/photo
GetPhoto(id) ==
  /\ pc = "idle"
  /\ req' = Request("photo", id, None, None, None, None, null, null)
  /\ resp' = FetchPhoto(inventory, cache, id)
  /\ pc' = "sent"
  /\ UNCHANGED <<inventory, nextId, cache, nextFile, issued, pending, unlinked>>

\* PUT /inventory/:id/photo, up to and including the unlink of the old file
\* The handler of PUT /inventory/:id/photo up to the unlink, for a request
\* whose upload stored file and left the cache directory as disk.
PutPhoto(id, photo, file, disk) ==
  /\ LET item == findItem(inventory, id)
     IN  IF ~item.some
         THEN /\ resp' = Error(404, "Item not found")
              /\ req' = Request("replace", id, None, None, photo, None, file, null)
              /\ cache' = disk
              /\ pc' = "sent"
              /\ UNCHANGED unlinked
         ELSE IF file = null
         THEN /\ resp' = Error(400, "Photo file is required")
              /\ req' = Request("replace", id, None, None, photo, None, file, null)
              /\ cache' = disk
              /\ pc' = "sent"
              /\ UNCHANGED unlinked
         ELSE /\ resp' = NoResp
              /\ req' = Request("replace", id, None, None, photo, None, file,
                                item.val.photo)
              /\ cache' = Unlink(disk, item.val.photo)
              /\ unlinked' = unlinkSync(unlinked, disk, item.val.photo)
              /\ pc' = "swap"
  /\ UNCHANGED <<inventory, nextId, issued>>

ReplacePhoto(id, photo) ==
  /\ pc = "idle"
  /\ \E file \in 0..MaxFiles :
       /\ Multer(photo, file)
       /\ PutPhoto(id, photo, file, upload(cache, file))
  /\ UNCHANGED pending

\* PUT /inventory/:id/photo, from the assignment of item.photo to the response
ReplacePhotoSwap ==
  /\ pc = "swap"
  /\ LET k    == findItemIndex(inventory, req.id)
         item == SwapPhoto(inventory[k], req.file, req.id)
     IN  /\ inventory' = [inventory EXCEPT ![k] = item]
         /\ resp' = Json(200, item)
  /\ pc' = "sent"
  /\ UNCHANGED <<nextId, cache, nextFile, req, issued, pending, unlinked>>

\* DELETE /inventory/:id
Delete(id) ==
  /\ pc = "idle"
  /\ LET index == findItemIndex(inventory, id)
     IN  IF index = 0
         THEN /\ req' = Request("delete", id, None, None, None, None, null, null)
              /\ resp' = Error(404, "Item not found")
              /\ UNCHANGED <<inventory, cache, unlinked>>
         ELSE /\ req' = Request("delete", id, None, None, None, None, null,
                                inventory[index].photo)
              /\ cache' = Unlink(cache, inventory[index].photo)
              /\ unlinked' = unlinkSync(unlinked, cache, inventory[index].photo)
              /\ inventory' = Splice(inventory, index)
              /\ resp' = Deleted
  /\ pc' = "sent"
  /\ UNCHANGED <<nextId, nextFile, issued, pending>>

\* POST /search
Search(id, has_photo) ==
  /\ pc = "idle"
  /\ req' = Request("search", id, None, None, None, has_photo, null, null)
  /\ LET k == findItemIndex(inventory, id)
     IN  IF k = 0
         THEN /\ resp' = Error(404, "Item not found")
              /\ UNCHANGED inventory
         ELSE /\ resp' = Json(200, SearchResult(inventory[k], has_photo))
              /\ inventory' = SearchStore(inventory, k, has_photo)
  /\ pc' = "sent"
  /\ UNCHANGED <<nextId, cache, nextFile, issued, pending, unlinked>>

\* The files of the directory the server is started in, which is both the
\* root of express.static('.') and __dirname: the program itself and a page.
RootFiles == {<<"/server", ".js">>, <<"/RegisterForm", ".html">>}

\* The routes with a fixed path: app.get('/inventory'), app.post('/register'),
\* app.post('/search').
Routes ==
  {<<"GET", <<"/inventory">>>>, <<"POST", <<"/register">>>>,
   <<"POST", <<"/search">>>>}

OtherMethods == {"GET", "POST", "PATCH"}

OtherPaths == RootFiles \cup {<<"/inventory">>, <<"/missing", ".html">>}

\* app.use(express.static('.')): answers a GET or HEAD that names a file of
\* the root, and passes every other request on.
expressStatic(method, path) == method \in {"GET", "HEAD"} /\ path \in RootFiles

\* app.all('*'), reached by a request no route has answered
appAll(path) ==
  IF endsWith(path, HtmlExt) /\ path \in RootFiles
  THEN SendAsset(path)
  ELSE Error(405, "Method not allowed")

\* A request that matches none of the routes.
Other(method, path) ==
  /\ pc = "idle"
  /\ <<method, path>> \notin Routes
  /\ req' = [Request("other", None, None, None, None, None, null, null)
               EXCEPT !.method = method, !.path = path]
  /\ resp' = IF expressStatic(method, path) THEN SendAsset(path)
             ELSE appAll(path)
  /\ pc' = "sent"
  /\ UNCHANGED <<inventory, nextId, cache, nextFile, issued, pending, unlinked>>

\* The number of registrations among the requests in flight.
Registering(bag) ==
  BagCardinality([r \in {q \in BagToSet(bag) : q.op = "register"} |-> bag[r]])

\* upload.single('photo') as a step of its own: multer stores the file of
\* a POST /register or PUT /inventory/:id/photo while other requests are
\* served, and the handler runs once the upload has ended.
UploadSingle(op, id, name, description, photo) ==
  /\ pc = "idle"
  /\ BagCardinality(pending) < MaxInflight
  /\ op = "register" => nextId + Registering(pending) <= MaxId
  /\ \E file \in 0..MaxFiles :
       /\ Multer(photo, file)
       /\ cache' = upload(cache, file)
       /\ pending' = pending (+) SetToBag({Request(op, id, name, description,
                                                  photo, None, file, null)})
  /\ UNCHANGED <<inventory, nextId, pc, req, resp, issued, unlinked>>

\* The handler of POST /register runs for an uploaded request; handlers are
\* synchronous, so it runs from its first line to its response in one step.
RegisterHandler(r) ==
  /\ pc = "idle"
  /\ BagIn(r, pending)
  /\ r.op = "register"
  /\ PostRegister(r.inventory_name, r.description, r.photo, r.file)
  /\ pending' = pending (-) SetToBag({r})
  /\ UNCHANGED <<cache, nextFile>>

\* The handler of PUT /inventory/:id/photo runs for an uploaded request.
ReplacePhotoHandler(r) ==
  /\ pc = "idle"
  /\ BagIn(r, pending)
  /\ r.op = "replace"
  /\ PutPhoto(r.id, r.photo, r.file, cache)
  /\ pending' = pending (-) SetToBag({r})
  /\ UNCHANGED nextFile

\* The response has gone out and the server waits for the next request.
Finish ==
  /\ pc = "sent"
  /\ pc' = "idle"
  /\ req' = NoRequest
  /\ resp' = NoResp
  /\ UNCHANGED <<inventory, nextId, cache, nextFile, issued, pending, unlinked>>

\* Something other than the service removes a file of the cache directory.
ExternalUnlink(f) ==
  /\ pc = "idle"
  /\ f \in cache
  /\ \E k \in 1..Len(inventory) : inventory[k].photo = f
  /\ cache' = cache \ {f}
  /\ UNCHANGED <<inventory, nextId, nextFile, pc, req, resp, issued, pending,
                 unlinked>>

\* ---------------------------------------------------------- specification
Next ==
  \/ \E name \in NameVals, description \in DescVals, photo \in PhotoVals :
       Register(name, description, photo)
  \/ GetInventory
  \/ \E id \in IdVals : GetItem(id)
  \/ \E id \in IdVals, name \in UpdateNameVals, description \in DescVals :
       Update(id, name, description)
  \/ \E id \in IdVals : GetPhoto(id)
  \/ \E id \in IdVals, photo \in PhotoVals : ReplacePhoto(id, photo)
  \/ ReplacePhotoSwap
  \/ \E id \in IdVals : Delete(id)
  \/ \E id \in IdVals \cup {None}, has_photo \in HasPhotoVals : Search(id, has_photo)
  \/ \E method \in OtherMethods, path \in OtherPaths : Other(method, path)
  \/ Finish

\* The service alone owns the cache directory.
Spec == Init /\ [][Next]_vars

\* The cache directory is also open to other processes: the requests that
\* read or write photo files, with files disappearing under the service.
NextExt ==
  \/ \E name \in NameVals, description \in DescVals, photo \in PhotoVals :
       Register(name, description, photo)
  \/ \E id \in IdVals : GetPhoto(id)
  \/ \E id \in IdVals, photo \in PhotoVals : ReplacePhoto(id, photo)
  \/ ReplacePhotoSwap
  \/ \E id \in IdVals : Delete(id)
  \/ Finish
  \/ \E f \in 1..MaxFiles : ExternalUnlink(f)

SpecExt == Init /\ [][NextExt]_vars

\* Requests in flight at the same time: uploads interleave with each other
\* and with the handlers, each handler runs alone.
ConcNames == {Some(<<"a">>)}

ConcPhotos == {None, Some(ImagePrefix \o <<"x">>)}

ConcIds == {Some(NumToString(i)) : i \in 1..MaxId}

NextConc ==
  \/ \E name \in ConcNames, photo \in ConcPhotos :
       UploadSingle("register", None, name, None, photo)
  \/ \E id \in ConcIds, photo \in ConcPhotos :
       UploadSingle("replace", id, None, None, photo)
  \/ \E r \in BagToSet(pending) : RegisterHandler(r)
  \/ \E r \in BagToSet(pending) : ReplacePhotoHandler(r)
  \/ ReplacePhotoSwap
  \/ \E id \in ConcIds : Delete(id)
  \/ Finish

SpecConc == Init /\ [][NextConc]_vars


\* ================================================================= claims

\* C1: the ids returned by successful registrations are strictly increasing
\* in call order, and the counter stays above every id it has handed out, so
\* an id is never assigned twice, whatever was deleted in between.
C1_IdsNeverReused ==
  /\ \A i, j \in 1..Len(issued) : i < j => issued[i] < issued[j]
  /\ \A i \in 1..Len(issued) : issued[i] < nextId
  /\ \A k \in 1..Len(inventory) :
       \E i \in 1..Len(issued) : issued[i] = inventory[k].id

\* A registration has just returned id 2 and its item is alone in the
\* collection: item 1, the most recent one before it, had been deleted.
C1_Witness ==
  /\ pc = "sent" /\ req.op = "register" /\ resp.status = 201
  /\ resp.item.id = 2
  /\ Len(inventory) = 1
  /\ issued = <<1, 2>>

\* A name that is absent, empty, or made of white space only.
Blank(name) ==
  ~name.some \/ \A i \in 1..Len(name.val) : name.val[i] \in WhiteSpace

\* C2: a POST /register whose inventory_name is absent, empty or only white
\* space answers 400, leaves the collection as it was and does not advance
\* the id counter.
C2_BlankNameRejected ==
  [][(pc = "idle" /\ req'.op = "register" /\ Blank(req'.inventory_name))
       => (/\ resp'.status = 400
           /\ inventory' = inventory
           /\ nextId' = nextId)]_vars

\* A white-space name has just been refused while the collection holds an item.
C2_Witness ==
  /\ pc = "sent" /\ req.op = "register"
  /\ req.inventory_name = Some(<<" ">>)
  /\ resp.status = 400
  /\ Len(inventory) = 1

\* C3: an upload whose declared media type does not start with "image/" is
\* answered 400 by POST /register and by PUT /inventory/:id/photo, writes no
\* file to the cache directory and, on register, creates no item.
C3_NonImageRejected ==
  [][(/\ pc = "idle"
      /\ req'.op \in {"register", "replace"}
      /\ req'.photo.some
      /\ ~startsWith(req'.photo.val, ImagePrefix))
       => (/\ resp'.status = 400
           /\ cache' = cache
           /\ req'.op = "register" => inventory' = inventory)]_vars

\* C4: a request answered 400 or 404 leaves the collection, the id counter
\* and the files of the cache directory as they were before the request.
C4_FailedRequestChangesNothing ==
  [][(pc = "idle" /\ pc' = "sent" /\ resp'.status \in {400, 404})
       => (/\ inventory' = inventory
           /\ nextId' = nextId
           /\ cache' = cache)]_vars

\* C5: once PUT /inventory/:id/photo has answered 200, GET
\* /inventory/:id/photo serves the file just uploaded, and the file that was
\* the item's photo before the request is gone from the cache directory.
C5_ReplacedPhotoServed ==
  (pc = "sent" /\ req.op = "replace" /\ resp.status = 200)
    => /\ FetchPhoto(inventory, cache, req.id) = SendFile(req.file)
       /\ req.old # null => req.old \notin cache

\* The photo of an item that had one has just been replaced.
C5_Witness ==
  /\ pc = "sent" /\ req.op = "replace" /\ resp.status = 200
  /\ req.old # null
  /\ req.file \in cache

\* C6: while a replace-photo request is being served, no item's photo
\* reference names a file that is missing, and the old file is missing only
\* once the item's reference is the new file.
C6_NoDanglingDuringReplace ==
  req.op = "replace"
    => /\ \A k \in 1..Len(inventory) :
            inventory[k].photo # null => inventory[k].photo \in cache
       /\ (req.old # null /\ req.old \notin cache)
            => \E k \in 1..Len(inventory) : inventory[k].photo = req.file

\* The positions of the items whose id, written in decimal, is the text idText.
Named(inv, idText) ==
  {k \in 1..Len(inv) : NumToString(inv[k].id) = idText.val}

\* C7: DELETE /inventory/:id of an existing item answers 200, takes exactly
\* that record out of the collection and leaves no file of its photo in the
\* cache directory, whether or not the file was still there; after it no
\* item has that id, a delete by the decimal id of no item answers 404, and
\* a delete answered 404 changes nothing.
C7_DeleteRemovesRecordAndFile ==
  [][(pc = "idle" /\ req'.op = "delete")
       => LET hit == Named(inventory, req'.id)
          IN  IF hit # {}
              THEN \E k \in hit :
                     /\ resp'.status = 200
                     /\ Len(inventory') = Len(inventory) - 1
                     /\ \A j \in 1..Len(inventory') :
                          inventory'[j] = inventory[IF j < k THEN j ELSE j + 1]
                     /\ inventory[k].photo # null
                          => inventory[k].photo \notin cache'
                     /\ Named(inventory', req'.id) = {}
                     /\ nextId' = nextId
              ELSE /\ (\E n \in 1..nextId : NumToString(n) = req'.id.val)
                        => resp'.status = 404
                   /\ resp'.status = 404
                        => (/\ inventory' = inventory
                            /\ nextId' = nextId
                            /\ cache' = cache)]_vars

\* An item with a photo has just been deleted: its record and its file are
\* gone, and another item is still there.
C7_Witness ==
  /\ pc = "sent" /\ req.op = "delete" /\ resp.status = 200
  /\ req.old # null /\ req.old \notin cache
  /\ Named(inventory, req.id) = {}
  /\ Len(inventory) = 1

\* C8: between requests, every item with a photo reference has its file in
\* the cache directory: no item references a missing file.
C8_NoDanglingReference ==
  pc \in {"idle", "sent"}
    => \A k \in 1..Len(inventory) :
         inventory[k].photo # null => inventory[k].photo \in cache

\* Between requests: one item whose photo has been replaced, one without.
C8_Witness ==
  /\ pc = "idle"
  /\ Len(inventory) = 2
  /\ inventory[1].photo = 2
  /\ inventory[2].photo = null
  /\ cache = {2}

\* C9: POST /search changes neither the collection (the stored description
\* included), nor the id counter, nor the cache directory.
C9_SearchChangesNothing ==
  [][(pc = "idle" /\ req'.op = "search")
       => (/\ inventory' = inventory
           /\ nextId' = nextId
           /\ cache' = cache)]_vars

\* A search has just returned a description with the photo note, and the
\* stored description is still the one registered.
C9_Witness ==
  /\ pc = "sent" /\ req.op = "search" /\ resp.status = 200
  /\ req.has_photo = Some(On)
  /\ Len(resp.item.description) > 1
  /\ \E k \in 1..Len(inventory) :
       inventory[k].id = resp.item.id /\ inventory[k].description = <<"d">>

\* s ends with t.
EndsWith(s, t) ==
  Len(s) >= Len(t) /\ SubSeq(s, Len(s) - Len(t) + 1, Len(s)) = t

\* C10: the description POST /search returns differs from the stored one
\* exactly when has_photo is "on" and the item has a photo; it is then the
\* stored description followed by a note that ends with the item's
\* photo_url, and otherwise the stored description itself.
C10_SearchNote ==
  (pc = "sent" /\ req.op = "search" /\ resp.status = 200)
    => \E k \in 1..Len(inventory) :
         LET stored   == inventory[k]
             returned == resp.item.description
             noted    == req.has_photo = Some(On) /\ stored.photo # null
         IN  /\ stored.id = resp.item.id
             /\ (returned # stored.description) <=> noted
             /\ noted =>
                  /\ Len(returned) > Len(stored.description)
                  /\ SubSeq(returned, 1, Len(stored.description))
                       = stored.description
                  /\ EndsWith(returned, stored.photo_url)
                  /\ stored.photo_url # nullUrl

\* A search with has_photo = "on" has just answered for an item that has a
\* photo and an empty description.
C10_Witness ==
  /\ pc = "sent" /\ req.op = "search" /\ resp.status = 200
  /\ req.has_photo = Some(On)
  /\ \E k \in 1..Len(inventory) :
       /\ inventory[k].id = resp.item.id
       /\ inventory[k].photo # null
       /\ inventory[k].description = <<>>

\* C11: PUT /inventory/:id on an existing item answers 200 and overwrites
\* exactly the fields the request carries, an empty string included; it
\* leaves the absent fields, the item's id, photo and photo_url, every other
\* item, the id counter and the cache directory as they were.
C11_UpdateOverwritesPresentFields ==
  [][(pc = "idle" /\ req'.op = "update" /\ Named(inventory, req'.id) # {})
       => \E k \in Named(inventory, req'.id) :
            /\ resp'.status = 200
            /\ Len(inventory') = Len(inventory)
            /\ \A j \in 1..Len(inventory) : j # k => inventory'[j] = inventory[j]
            /\ inventory'[k].inventory_name =
                 IF req'.inventory_name.some THEN req'.inventory_name.val
                 ELSE inventory[k].inventory_name
            /\ inventory'[k].description =
                 IF req'.description.some THEN req'.description.val
                 ELSE inventory[k].description
            /\ inventory'[k].id = inventory[k].id
            /\ inventory'[k].photo = inventory[k].photo
            /\ inventory'[k].photo_url = inventory[k].photo_url
            /\ resp'.item = inventory'[k]
            /\ nextId' = nextId
            /\ cache' = cache]_vars

\* An update carrying an empty name and no description has just answered
\* for an item with a photo: the name is empty, the description is kept.
C11_Witness ==
  /\ pc = "sent" /\ req.op = "update" /\ resp.status = 200
  /\ req.inventory_name = Some(<<>>) /\ req.description = None
  /\ resp.item.inventory_name = <<>>
  /\ resp.item.description = <<"d">>
  /\ resp.item.photo # null

\* C12: an item's photo_url is null exactly when its photo reference is
\* null, and otherwise it is "/inventory/<id>/photo" with the decimal form
\* of the item's id, whatever text the request used for the id.
C12_PhotoUrlDerivedFromId ==
  \A k \in 1..Len(inventory) :
    /\ (inventory[k].photo_url = nullUrl) <=> (inventory[k].photo = null)
    /\ inventory[k].photo # null
         => inventory[k].photo_url = PhotoUrl(NumToString(inventory[k].id))

\* The three ways a photo request can find nothing: the path id names no
\* item, the item it names has no photo, the item's file is not in the cache.
Missing(inv, id) == \A k \in 1..Len(inv) : inv[k].id \notin parseInt(id)

Bare(inv, id) ==
  \E k \in 1..Len(inv) : inv[k].id \in parseInt(id) /\ inv[k].photo = null

Lost(inv, dir, id) ==
  \E k \in 1..Len(inv) :
    inv[k].id \in parseInt(id) /\ inv[k].photo # null /\ inv[k].photo \notin dir

\* C15: GET /inventory/:id/photo answers 404 exactly when the item does not
\* exist, has no photo or its file is absent from the cache directory, and
\* the 404 it sends is the response any other photo request answered 404 in
\* the same store would get.
C15_NotFoundIndistinguishable ==
  (pc = "sent" /\ req.op = "photo")
    => /\ resp.status = 404
            <=> \/ Missing(inventory, req.id)
                \/ Bare(inventory, req.id)
                \/ Lost(inventory, cache, req.id)
       /\ resp.status = 404
            => \A id \in IdVals :
                 FetchPhoto(inventory, cache, id).status = 404
                   => FetchPhoto(inventory, cache, id) = resp

\* C16: a photo request for an item without a photo or for an id that names
\* no item is answered 404, with the response every other such request gets
\* in the same store.
C16_NoPhotoLikeNoItem ==
  (/\ pc = "sent" /\ req.op = "photo"
   /\ Missing(inventory, req.id) \/ Bare(inventory, req.id))
    => /\ resp.status = 404
       /\ \A id \in IdVals :
            (Missing(inventory, id) \/ Bare(inventory, id))
              => FetchPhoto(inventory, cache, id) = resp

\* A photo request for an item without a photo has just been answered,
\* while the decimal id 2 names no item and item 1 exists.
C16_Witness ==
  /\ pc = "sent" /\ req.op = "photo" /\ resp.status = 404
  /\ Bare(inventory, req.id)
  /\ Missing(inventory, Some(<<"2">>))
  /\ ~Missing(inventory, Some(<<"1">>))

\* A name as the data model describes it: not empty, no white space at
\* either end.
Tidy(name) ==
  /\ name # <<>>
  /\ name[1] \notin WhiteSpace
  /\ name[Len(name)] \notin WhiteSpace

\* C17 (as stated): in every reachable state every item's name is a
\* non-empty string without surrounding white space.
C17_NamesNonEmptyTrimmed ==
  \A k \in 1..Len(inventory) : Tidy(inventory[k].inventory_name)

\* C17 (amended): a registration stores a non-empty name without
\* surrounding white space, and the name of an item changes only by an
\* update request that carries inventory_name, which stores the submitted
\* text as it is, empty or padded included.
C17_NameTidyUntilUpdated ==
  [][/\ (pc = "idle" /\ req'.op = "register" /\ resp'.status = 201)
          => Tidy(inventory'[Len(inventory')].inventory_name)
     /\ \A k \in 1..Len(inventory) : \A j \in 1..Len(inventory') :
          (/\ inventory'[j].id = inventory[k].id
           /\ inventory'[j].inventory_name # inventory[k].inventory_name)
            => /\ req'.op = "update"
               /\ req'.inventory_name.some
               /\ inventory'[j].inventory_name = req'.inventory_name.val]_vars

\* An update has just emptied the name of an item, while another item still
\* holds the name it was registered with.
C17_Witness ==
  /\ pc = "sent" /\ req.op = "update" /\ resp.status = 200
  /\ resp.item.inventory_name = <<>>
  /\ \E k \in 1..Len(inventory) :
       /\ inventory[k].id = resp.item.id
       /\ inventory[k].inventory_name = <<>>
  /\ \E k \in 1..Len(inventory) : Tidy(inventory[k].inventory_name)

\* The text t is the text s without its leading and trailing white space.
Stripped(s, t) ==
  /\ Tidy(t)
  /\ \E i \in 1..Len(s) :
       /\ i + Len(t) - 1 <= Len(s)
       /\ t = SubSeq(s, i, i + Len(t) - 1)
       /\ \A n \in 1..Len(s) :
            (n < i \/ n > i + Len(t) - 1) => s[n] \in WhiteSpace

\* C18: a registration with a non-blank name answers 201 and appends one
\* item: its id is the counter before the call, its name the submitted one
\* without surrounding white space, its description the submitted one or
\* empty, its photo and photo_url null when no file was uploaded; the
\* counter advances by one and the items already there do not change.
C18_RegisterAppendsItem ==
  [][(pc = "idle" /\ req'.op = "register" /\ ~Blank(req'.inventory_name))
       => /\ resp'.status = 201
          /\ Len(inventory') = Len(inventory) + 1
          /\ \A k \in 1..Len(inventory) : inventory'[k] = inventory[k]
          /\ LET item == inventory'[Len(inventory')]
             IN  /\ resp'.item = item
                 /\ item.id = nextId
                 /\ Stripped(req'.inventory_name.val, item.inventory_name)
                 /\ item.description =
                      IF req'.description.some THEN req'.description.val
                      ELSE <<>>
                 /\ req'.file = null
                      => item.photo = null /\ item.photo_url = nullUrl
          /\ nextId' = nextId + 1]_vars

\* A second item has just been registered with a padded name, a
\* description and no file, after an item with a photo.
C18_Witness ==
  /\ pc = "sent" /\ req.op = "register" /\ resp.status = 201
  /\ req.inventory_name = Some(<<" ", "a", " ">>)
  /\ req.file = null
  /\ resp.item.id = 2
  /\ resp.item.inventory_name = <<"a">>
  /\ resp.item.description = <<"d">>
  /\ resp.item.photo = null
  /\ inventory[1].photo # null

\* The place of an id in the order of registration.
Registered(id) == CHOOSE p \in 1..Len(issued) : issued[p] = id

C20_UnmatchedAnswered405 ==
  [][(pc = "idle" /\ req'.op = "other")
       => /\ inventory' = inventory
          /\ nextId' = nextId
          /\ cache' = cache
          /\ resp'.status = 405 \/ endsWith(req'.path, HtmlExt)]_vars

\* C13: with uploads and handlers of delete and replace-photo requests
\* interleaved in any order, once a handler has answered no item references
\* a file that is not in the cache directory, and no file has been unlinked
\* more than once.
C13_ConcurrentDeleteReplaceSafe ==
  /\ pc \in {"idle", "sent"}
       => \A k \in 1..Len(inventory) :
            inventory[k].photo # null => inventory[k].photo \in cache
  /\ \A f \in 1..MaxFiles : unlinked[f] <= 1

\* The delete of an item with a photo has just been answered, its file
\* unlinked, while a replace-photo for the same item has its file uploaded
\* and its handler still to run.
C13_Witness ==
  /\ pc = "sent" /\ req.op = "delete" /\ resp.status = 200
  /\ req.old # null /\ unlinked[req.old] = 1
  /\ \E r \in BagToSet(pending) :
       /\ r.op = "replace" /\ r.id = req.id
       /\ r.file # null /\ r.file \in cache

\* C14: the collection holds at most one item per id and no id is handed
\* out twice, also when the uploads of several registrations interleave.
C14_OneItemPerId ==
  /\ \A i \in 1..Len(inventory) : \A j \in 1..Len(inventory) :
       i # j => inventory[i].id # inventory[j].id
  /\ \A i \in 1..Len(issued) : \A j \in 1..Len(issued) :
       i # j => issued[i] # issued[j]

\* Two registrations were in flight together: the one whose upload ended
\* second was handled first, and both have got their ids.
C14_Witness ==
  /\ pc = "sent" /\ req.op = "register" /\ resp.status = 201
  /\ Len(inventory) = 2
  /\ inventory[1].id = 1 /\ inventory[1].photo = 2
  /\ inventory[2].id = 2 /\ inventory[2].photo = 1

\* C21: GET /inventory/:id and POST /search answer 200 exactly when the
\* request's id is the decimal form of the id of an item of the collection,
\* with that item, and 404 otherwise, an id that only starts with digits
\* included; both answer for the item the other would find.
C21_LookupByExactId ==
  (pc = "sent" /\ req.op \in {"get", "search"})
    => /\ resp.status = 200 <=> Named(inventory, req.id) # {}
       /\ resp.status # 200 => resp.status = 404
       /\ resp.status = 200
            => /\ findItem(inventory, req.id).some
               /\ resp.item.id = findItem(inventory, req.id).val.id

\* C22: once a request has been answered, every file of the cache directory
\* is the photo of exactly one item of the collection.
C22_EveryFileReferencedOnce ==
  pc \in {"idle", "sent"}
    => \A f \in cache :
         Cardinality({k \in 1..Len(inventory) : inventory[k].photo = f}) = 1

\* The items of inv that a request for the id text names, by parseInt.
Target(inv, id) == {k \in 1..Len(inv) : inv[k].id \in parseInt(id)}

\* Every item of inv but the k-th still has its photo file in dir.
OthersKeepFile(inv, k, before, after) ==
  \A j \in 1..Len(inv) :
    (j # k /\ inv[j].photo # null /\ inv[j].photo \in before)
      => inv[j].photo \in after

\* C23: a delete answered 200 takes its item out and leaves every other item
\* with all its fields, in the same order; a replace-photo that goes through
\* changes no other item and leaves its item's id, name and description; in
\* both, the photo files of the other items stay in the cache directory and
\* the id counter stays.
C23_NothingOutsideItemChanges ==
  [][/\ (pc = "idle" /\ req'.op = "delete" /\ resp'.status = 200)
          => \E k \in Target(inventory, req'.id) :
               /\ Len(inventory') = Len(inventory) - 1
               /\ \A j \in 1..Len(inventory') :
                    inventory'[j] = inventory[IF j < k THEN j ELSE j + 1]
               /\ OthersKeepFile(inventory, k, cache, cache')
               /\ nextId' = nextId
     /\ ((pc = "idle" /\ req'.op = "replace" /\ pc' = "swap") \/ pc = "swap")
          => \E k \in Target(inventory, req'.id) :
               /\ Len(inventory') = Len(inventory)
               /\ \A j \in 1..Len(inventory) :
                    j # k => inventory'[j] = inventory[j]
               /\ inventory'[k].id = inventory[k].id
               /\ inventory'[k].inventory_name = inventory[k].inventory_name
               /\ inventory'[k].description = inventory[k].description
               /\ OthersKeepFile(inventory, k, cache, cache')
               /\ nextId' = nextId]_vars

\* An item with a photo has just been deleted, its file is gone, and the
\* other item still has its photo file in the cache directory.
C23_Witness ==
  /\ pc = "sent" /\ req.op = "delete" /\ resp.status = 200
  /\ req.old # null /\ req.old \notin cache
  /\ Len(inventory) = 1
  /\ inventory[1].photo # null /\ inventory[1].photo \in cache

====
